---- MODULE Spec2Model ----
(***************************************************************************)
(* Model of bot/cogs/watchchannels/watchchannel.py: the WatchChannel cog.  *)
(* One asyncio event loop runs every coroutine of the cog; a step of the   *)
(* model is the code a coroutine runs between two suspension points        *)
(* (await), so every action below is atomic exactly as the code is.        *)
(*                                                                         *)
(* Inbound messages have text (msg.clean_content non-empty) and may carry  *)
(* attachments; a message is known by its arrival number.                  *)
(***************************************************************************)
EXTENDS Integers, Sequences, FiniteSets, TLC

\* ----------------------------------------------------------------- bounds
\* Accepted on_message calls in a behaviour of each specification.
MaxMsgs == 1          \* Spec
MaxRunMsgs == 2       \* SpecRun
MaxCancelMsgs == 3    \* SpecCancel
MaxEngineMsgs == 4    \* SpecEngine
MaxLiveMsgs == 3      \* SpecLive
MaxRelayMsgs == 2     \* SpecRelay
MaxTasks == 2         \* consume tasks that can exist at once (slots)

\* ------------------------------------------------------ program constants
None == 0                     \* Python's None
destination == 1              \* the channel object get_channel(destination) returns
webhook_id == 1               \* the webhook object get_webhook_info(webhook_id) returns
retries == 5                  \* self.retries
header_message_limit == 3     \* BigBrotherConfig.header_message_limit

Users == {5, 6}
Channels == {10, 11}
RunChannels == {10}           \* the channel the messages of SpecRun come from

\* An entry of the API's answer, after entry.pop('user').
Entries ==
    { [actor |-> 1, reason |-> 1, inserted_at |-> 1] }

\* What defaultdict(dict) inserts on a lookup of a missing key: {}.
EmptyEntry == [f \in {} |-> 0]

VARIABLES
    watched_users,      \* self.watched_users: user id -> entry
    message_queue,      \* self.message_queue: ordered dict user -> (ordered dict channel -> deque)
    consumption_queue,  \* self.consumption_queue
    tasks,              \* the consume tasks the loop holds, by slot
    consume_task,       \* self._consume_task: a slot, or None
    message_history,    \* self.message_history
    channel,            \* self.channel
    webhook,            \* self.webhook
    start,              \* position of the start_watchchannel task
    list,               \* position of a list_watched_users call
    unloaded,           \* cog_unload has run
    unload_exc,         \* how the cog_unload call ended: "none" before it
    msgs,               \* history: every on_message call, in order
    relayed,            \* history: ids passed to relay_message, in order
    sent,               \* history: what was handed to webhook.send, in order
    send_log,           \* history: the sends whose failure was logged, as <<kind, id>>
    completed,          \* history: ids whose relay_message call returned
    revoked,            \* history: ids still queued when _remove_user took their author
    snap_at             \* history: Len(msgs) when the first snapshot was taken, else -1

vars == << watched_users, message_queue, consumption_queue, tasks, consume_task,
           message_history, channel, webhook, start, list, unloaded, unload_exc, msgs, relayed, sent, send_log, completed, revoked, snap_at >>

\* --------------------------------------------- ordered dicts (Python dict)
\* A dict is the sequence of its <<key, value>> pairs in insertion order.
Keys(d) == { d[i][1] : i \in DOMAIN d }

IndexOf(d, k) == CHOOSE i \in DOMAIN d : d[i][1] = k

DictGet(d, k) == d[IndexOf(d, k)][2]

DictPut(d, k, v) ==
    IF k \in Keys(d) THEN [d EXCEPT ![IndexOf(d, k)] = <<k, v>>]
    ELSE Append(d, <<k, v>>)

DictPop(d, k) == SelectSeq(d, LAMBDA p : p[1] # k)

\* The ids held by the deques of a user's channel dict / of a whole queue.
InnerIds(uq) == UNION { { uq[j][2][n] : n \in DOMAIN uq[j][2] } : j \in DOMAIN uq }

QueueIds(q) == UNION { InnerIds(q[i][2]) : i \in DOMAIN q }

UserIds(q, u) == IF u \in Keys(q) THEN InnerIds(DictGet(q, u)) ELSE {}

\* A variant of the append that pushes at the left end (appendleft).
QueueAppendLeft(mq, a, c, m) ==
    LET uq == IF a \in Keys(mq) THEN DictGet(mq, a) ELSE << >>
        dq == IF c \in Keys(uq) THEN DictGet(uq, c) ELSE << >>
    IN  DictPut(mq, a, DictPut(uq, c, <<m>> \o dq))

\* self.message_queue[author][channel].append(msg) on defaultdicts.
QueueAppend(mq, a, c, m) ==
    LET uq == IF a \in Keys(mq) THEN DictGet(mq, a) ELSE << >>
        dq == IF c \in Keys(uq) THEN DictGet(uq, c) ELSE << >>
    IN  DictPut(mq, a, DictPut(uq, c, Append(dq, m)))

\* ------------------------------------------------------------------ tasks
NoTask ==
    [ status |-> "free", pc |-> "none", delay |-> FALSE, cancel |-> FALSE,
      size |-> 0, user |-> None, ci |-> 0, msg |-> None,
      detached |-> FALSE, uq |-> << >>, exc |-> "none" ]

\* loop.create_task(self.consume_messages(delay_consumption))
NewTask(delay) == [NoTask EXCEPT !.status = "live", !.pc = "start", !.delay = delay]

EndedTask(how) == [NoTask EXCEPT !.status = how]

\* A task that ended because exception exc left consume_messages.
FailedTask(exc) == [NoTask EXCEPT !.status = "failed", !.exc = exc]

Slots == 1..MaxTasks

Done(tk) == tk.status \in {"finished", "failed", "cancelled"}

Live(tk) == tk.status = "live"

\* A finished task nothing refers to any more is garbage.
Collect(ts, ct) ==
    [ i \in Slots |-> IF Done(ts[i]) /\ i # ct THEN NoTask ELSE ts[i] ]

\* The slot a new task gets, when `self` (a slot or None) ends in this step.
FreeSlots(ts, self) == { i \in Slots : ts[i].status = "free" \/ i = self }

NewSlot(ts, self) == CHOOSE i \in FreeSlots(ts, self) : \A j \in FreeSlots(ts, self) : i <= j

\* ------------------------------------------------------------------- Init
\* What api_client.get will answer a call: `data`, or ClientResponseError.
Answer(ok, data) == [ok |-> ok, data |-> data]

NoAnswer == Answer(FALSE, << >>)

StartTask(pc, attempt) == [pc |-> pc, attempt |-> attempt, answer |-> NoAnswer]

StartTaskFetching(ans) == [pc |-> "fetch_user_cache", attempt |-> 0, answer |-> ans]

ListTask(pc, answer) == [pc |-> pc, answer |-> answer]

MessageHistory(a, c, n) == [last_author |-> a, last_channel |-> c, message_count |-> n]

Init ==
    /\ watched_users = << >>
    /\ message_queue = << >>
    /\ consumption_queue = << >>
    /\ tasks = [i \in Slots |-> NoTask]
    /\ consume_task = None
    /\ message_history = MessageHistory(None, None, 0)
    /\ channel = None
    /\ webhook = None
    /\ start = StartTask("wait_until_ready", 0)
    /\ list = ListTask("idle", NoAnswer)
    /\ unloaded = FALSE
    /\ unload_exc = "none"
    /\ msgs = << >>
    /\ relayed = << >>
    /\ sent = << >>
    /\ send_log = {}
    /\ completed = {}
    /\ revoked = {}
    /\ snap_at = -1


\* ------------------------------------------------------- message intake
\* A variant of the property that takes any task it has for a running one.
consuming_messages_stale ==
    IF consume_task = None THEN "False" ELSE "True"

\* A variant of the property that never sees a running task.
consuming_messages_never == "False"

\* The consuming_messages property: "True", "False", or the exception that
\* Task.exception() raises for a cancelled task.
consuming_messages ==
    IF consume_task = None THEN "False"
    ELSE IF ~Done(tasks[consume_task]) THEN "True"
    ELSE IF tasks[consume_task].status = "cancelled" THEN "CancelledError"
    ELSE "False"

\* consuming_messages logs the exception of a task that failed (lines 90-95).
failure_logged ==
    /\ consume_task # None
    /\ tasks[consume_task].status = "failed"

\* A call of on_message that got past the membership test: the message, whether
\* it was queued, and whether the call logged the failure of the last task.
Inbound(a, c, att, q, lg) ==
    [author |-> a, channel |-> c, attachments |-> att, queued |-> q, logged |-> lg]

\* on_message(msg) for a message of author a in channel c, with attachments or not.
Intake(a, c, att) ==
    LET id == Len(msgs) + 1
        cm == consuming_messages
    IN  IF a \notin DOMAIN watched_users
        THEN UNCHANGED vars
        ELSE /\ IF cm = "CancelledError"
                THEN /\ msgs' = Append(msgs, Inbound(a, c, att, FALSE, FALSE))
                     /\ UNCHANGED <<message_queue, tasks, consume_task>>
                ELSE /\ msgs' = Append(msgs, Inbound(a, c, att, TRUE, failure_logged))
                     /\ message_queue' = QueueAppend(message_queue, a, c, id)
                     /\ IF cm = "False"
                        THEN LET ts == Collect(tasks, None)
                             IN  /\ FreeSlots(ts, None) # {}
                                 /\ consume_task' = NewSlot(ts, None)
                                 /\ tasks' = [ts EXCEPT ![NewSlot(ts, None)] = NewTask(TRUE)]
                        ELSE UNCHANGED <<tasks, consume_task>>
             /\ UNCHANGED << watched_users, consumption_queue, message_history, channel,
                             webhook, start, list, unloaded, unload_exc, relayed,
                             sent, send_log, completed, revoked, snap_at >>

\* on_message(msg) for a text message.
on_message(a, c) == Intake(a, c, FALSE)

OnMessage ==
    \E a \in Users, c \in Channels :
        /\ Len(msgs) < MaxMsgs
        /\ on_message(a, c)

OnMessageRun ==
    \E a \in Users, c \in RunChannels :
        /\ Len(msgs) < MaxRunMsgs
        /\ on_message(a, c)

OnMessageCancel ==
    \E a \in Users, c \in Channels :
        /\ Len(msgs) < MaxCancelMsgs
        /\ on_message(a, c)

OnMessageEngine ==
    \E a \in Users, c \in Channels :
        /\ Len(msgs) < MaxEngineMsgs
        /\ on_message(a, c)

OnMessageRelay ==
    \E a \in Users, c \in Channels, att \in BOOLEAN :
        /\ Len(msgs) < MaxRelayMsgs
        /\ Intake(a, c, att)

OnMessageLive ==
    \E a \in Users, c \in Channels :
        /\ Len(msgs) < MaxLiveMsgs
        /\ on_message(a, c)

\* ------------------------------------------------------------ relay step
\* A variant of the header test that lets one more message through.
NeedsHeaderLate(mh, a, c) ==
    \/ a # mh.last_author
    \/ c # mh.last_channel
    \/ mh.message_count > header_message_limit

\* A variant of the header test that ignores the channel.
NeedsHeaderByAuthor(mh, a, c) ==
    \/ a # mh.last_author
    \/ mh.message_count >= header_message_limit

NeedsHeader(mh, a, c) ==
    \/ a # mh.last_author
    \/ c # mh.last_channel
    \/ mh.message_count >= header_message_limit

\* relay_message(msg) up to its first await: the history it leaves, the cache
\* it leaves (send_header looks the author up in a defaultdict), and where it
\* stops: awaiting the header send, awaiting the body send, or raising.
relay_message(m, mh, wu, wh) ==
    LET a == msgs[m].author
        c == msgs[m].channel
        mh2 == MessageHistory(a, c, 0)
    IN  IF NeedsHeader(mh, a, c)
        THEN IF a \notin DOMAIN wu
             THEN [mh |-> mh2, wu |-> (a :> EmptyEntry) @@ wu, out |-> "KeyError"]
             ELSE IF "actor" \notin DOMAIN wu[a]
             THEN [mh |-> mh2, wu |-> wu, out |-> "KeyError"]
             ELSE IF wh = None
             THEN [mh |-> mh2, wu |-> wu, out |-> "AttributeError"]
             ELSE [mh |-> mh2, wu |-> wu, out |-> "header"]
        ELSE IF wh = None
             THEN [mh |-> mh, wu |-> wu, out |-> "AttributeError"]
             ELSE [mh |-> mh, wu |-> wu, out |-> "body"]

\* ------------------------------------------------------ consume_messages
\* The channel dict the task's inner loops run over: consumption_queue[user],
\* or the dict the task still holds after the user was popped from the queue.
InnerOf(cq, det, uq, user) ==
    IF det THEN uq
    ELSE IF user \in Keys(cq) THEN DictGet(cq, user)
    ELSE << >>

\* The three nested loops from position (user, ci) to the next message to
\* pop: `while channel_queue`, the next channel, the next user. The dict
\* iterator raises RuntimeError when the dict's size is not the size it had
\* when the iteration began.
RECURSIVE Seek(_, _, _, _, _, _)
Seek(cq, size, det, uq, user, ci) ==
    LET inner == InnerOf(cq, det, uq, user)
    IN  IF ci >= 1 /\ ci <= Len(inner) /\ Len(inner[ci][2]) > 0
        THEN [kind |-> "msg", user |-> user, ci |-> ci, det |-> det]
        ELSE IF ci < Len(inner)
        THEN Seek(cq, size, det, uq, user, ci + 1)
        ELSE IF Len(cq) # size
        THEN [kind |-> "RuntimeError", user |-> user, ci |-> ci, det |-> det]
        ELSE LET i == IF user = None THEN 1
                      ELSE IF user \in Keys(cq) THEN IndexOf(cq, user) + 1
                      ELSE Len(cq) + 1
             IN  IF i <= Len(cq)
                 THEN Seek(cq, size, FALSE, << >>, cq[i][1], 0)
                 ELSE [kind |-> "end", user |-> user, ci |-> ci, det |-> det]

\* A variant of the test at the end of a drain that never starts a new one.
RespawnNever(mq) == FALSE

\* `if self.message_queue` at the end of a drain (line 207).
Respawn(mq) == Len(mq) > 0

\* Lines 197-211 from the position of task t (record tk) to its next await,
\* on the queues cq, mq and the history mh that the step has made so far.
Drain(t, tk, cq, mq, mh) ==
    LET pos == Seek(cq, tk.size, tk.detached, tk.uq, tk.user, tk.ci)
    IN  /\ message_queue' = mq
        /\ CASE pos.kind = "RuntimeError" ->
                  /\ tasks' = Collect([tasks EXCEPT ![t] = FailedTask("RuntimeError")],
                                      consume_task)
                  /\ consumption_queue' = cq
                  /\ message_history' = mh
                  /\ UNCHANGED <<consume_task, watched_users, relayed, sent>>
             [] pos.kind = "end" ->
                  /\ consumption_queue' = << >>
                  /\ message_history' = mh
                  /\ IF Respawn(mq)
                     THEN LET slot == NewSlot(tasks, t)
                              ts == [tasks EXCEPT ![t] = EndedTask("finished")]
                          IN  /\ consume_task' = slot
                              /\ tasks' = Collect([ts EXCEPT ![slot] = NewTask(FALSE)], slot)
                     ELSE /\ consume_task' = consume_task
                          /\ tasks' = Collect([tasks EXCEPT ![t] = EndedTask("finished")],
                                              consume_task)
                  /\ UNCHANGED <<watched_users, relayed, sent>>
             [] pos.kind = "msg" ->
                  LET inner == InnerOf(cq, pos.det, tk.uq, pos.user)
                      dq == inner[pos.ci][2]
                      m == Head(dq)
                      inner2 == [inner EXCEPT ![pos.ci] = <<inner[pos.ci][1], Tail(dq)>>]
                      r == relay_message(m, mh, watched_users, webhook)
                      tk2 == [tk EXCEPT !.user = pos.user, !.ci = pos.ci, !.msg = m,
                                        !.detached = pos.det,
                                        !.uq = IF pos.det THEN inner2 ELSE << >>,
                                        !.pc = r.out]
                  IN  /\ consumption_queue' = IF pos.det THEN cq ELSE DictPut(cq, pos.user, inner2)
                      /\ relayed' = Append(relayed, m)
                      /\ message_history' = r.mh
                      /\ watched_users' = r.wu
                      /\ consume_task' = consume_task
                      /\ IF r.out \in {"KeyError", "AttributeError"}
                         THEN /\ tasks' = Collect([tasks EXCEPT ![t] = FailedTask(r.out)],
                                                  consume_task)
                              /\ sent' = sent
                         ELSE /\ tasks' = [tasks EXCEPT ![t] = tk2]
                              /\ sent' = Append(sent, <<r.out, m>>)

\* A variant of the swap that leaves message_queue as it was.
SnapshotKeep(cq, mq) ==
    IF Len(cq) = 0
    THEN [swap |-> TRUE, cq |-> mq, mq |-> mq]
    ELSE [swap |-> FALSE, cq |-> cq, mq |-> mq]

\* Lines 193-195: unless a snapshot is left over, consumption_queue becomes a
\* copy of message_queue and message_queue is cleared. The copy is shallow, and
\* clear() drops message_queue's references to the channel dicts, so the two
\* queues share nothing afterwards.
Snapshot(cq, mq) ==
    IF Len(cq) = 0
    THEN [swap |-> TRUE, cq |-> mq, mq |-> << >>]
    ELSE [swap |-> FALSE, cq |-> cq, mq |-> mq]

\* Lines 190-197: take the snapshot unless one is left over, start iterating.
Begin(t) ==
    LET sn == Snapshot(consumption_queue, message_queue)
        tk == [tasks[t] EXCEPT !.size = Len(sn.cq), !.user = None, !.ci = 0]
    IN  /\ Drain(t, tk, sn.cq, sn.mq, message_history)
        /\ snap_at' = IF sn.swap /\ snap_at = -1 THEN Len(msgs) ELSE snap_at
        /\ UNCHANGED << channel, webhook, start, list, unloaded, unload_exc,
                        msgs, send_log, completed, revoked >>

\* First step of a consume task: sleep log_delay, or drain at once.
ConsumeStart(t) ==
    /\ Live(tasks[t]) /\ ~tasks[t].cancel /\ tasks[t].pc = "start"
    /\ IF tasks[t].delay
       THEN /\ tasks' = [tasks EXCEPT ![t].pc = "sleep"]
            /\ UNCHANGED << watched_users, message_queue, consumption_queue, consume_task,
                            message_history, channel, webhook, start, list, unloaded,
                            unload_exc, msgs, relayed, sent, send_log, completed,
                            revoked, snap_at >>
       ELSE Begin(t)

\* asyncio.sleep(log_delay) returns.
ConsumeWake(t) ==
    /\ Live(tasks[t]) /\ ~tasks[t].cancel /\ tasks[t].pc = "sleep"
    /\ Begin(t)

\* A variant of webhook_send that lets the HTTPException through.
webhook_send_raise(ok) == IF ok THEN "sent" ELSE "HTTPException"

\* webhook_send once self.webhook.send has returned (ok) or raised
\* discord.HTTPException: the exception is logged and swallowed.
webhook_send(ok) == IF ok THEN "sent" ELSE "logged"

\* What the log holds after a send of kind k for message m that ended as r.
Logged(k, m, r) == IF r = "logged" THEN send_log \cup {<<k, m>>} ELSE send_log

\* The task stays where it is in the loops and waits at pc (or has failed).
Stay(t, tk) ==
    /\ tasks' = IF Done(tk) THEN Collect([tasks EXCEPT ![t] = tk], consume_task)
                ELSE [tasks EXCEPT ![t] = tk]
    /\ UNCHANGED << watched_users, message_queue, consumption_queue, consume_task,
                    message_history, channel, webhook, start, list, unloaded,
                    unload_exc, msgs, relayed, completed, revoked, snap_at >>

\* Line 272 and back to the loops: message_count += 1, relay_message returns.
Relayed(t) ==
    /\ completed' = completed \cup {tasks[t].msg}
    /\ Drain(t, tasks[t], consumption_queue, message_queue,
             [message_history EXCEPT !.message_count = @ + 1])
    /\ UNCHANGED << channel, webhook, start, list, unloaded, unload_exc,
                    msgs, revoked, snap_at >>

\* The header send is over (sent, or failed and logged): the body is sent.
HeaderReturns(t, ok) ==
    LET r == webhook_send(ok)
    IN  /\ Live(tasks[t]) /\ ~tasks[t].cancel /\ tasks[t].pc = "header"
        /\ IF r = "HTTPException"
           THEN /\ Stay(t, FailedTask(r))
                /\ UNCHANGED <<sent, send_log>>
           ELSE IF webhook = None
           THEN /\ Stay(t, FailedTask("AttributeError"))
                /\ send_log' = Logged("header", tasks[t].msg, r)
                /\ sent' = sent
           ELSE /\ Stay(t, [tasks[t] EXCEPT !.pc = "body"])
                /\ send_log' = Logged("header", tasks[t].msg, r)
                /\ sent' = Append(sent, <<"body", tasks[t].msg>>)

\* The body send is over: the attachments are forwarded, or the relay is over.
BodyReturns(t, ok) ==
    LET r == webhook_send(ok)
    IN  /\ Live(tasks[t]) /\ ~tasks[t].cancel /\ tasks[t].pc = "body"
        /\ IF r = "HTTPException"
           THEN /\ Stay(t, FailedTask(r))
                /\ UNCHANGED <<sent, send_log>>
           ELSE IF msgs[tasks[t].msg].attachments
           THEN /\ Stay(t, [tasks[t] EXCEPT !.pc = "attachments"])
                /\ send_log' = Logged("body", tasks[t].msg, r)
                /\ sent' = sent
           ELSE /\ Relayed(t)
                /\ send_log' = Logged("body", tasks[t].msg, r)

\* messages.send_attachments is over (lines 253-270): it returned ("sent"), it
\* raised Forbidden or NotFound ("refused": a placeholder is sent), or it
\* raised another HTTPException ("logged").
AttachmentsReturn(t, r) ==
    /\ Live(tasks[t]) /\ ~tasks[t].cancel /\ tasks[t].pc = "attachments"
    /\ IF r = "refused"
       THEN /\ Stay(t, [tasks[t] EXCEPT !.pc = "placeholder"])
            /\ UNCHANGED <<sent, send_log>>
       ELSE /\ Relayed(t)
            /\ send_log' = Logged("attachments", tasks[t].msg, r)

\* The send of the placeholder embed is over.
PlaceholderReturns(t, ok) ==
    LET r == webhook_send(ok)
    IN  /\ Live(tasks[t]) /\ ~tasks[t].cancel /\ tasks[t].pc = "placeholder"
        /\ IF r = "HTTPException"
           THEN /\ Stay(t, FailedTask(r))
                /\ UNCHANGED <<sent, send_log>>
           ELSE /\ Relayed(t)
                /\ send_log' = Logged("placeholder", tasks[t].msg, r)

HeaderSent(t) == HeaderReturns(t, TRUE)

HeaderFailed(t) == HeaderReturns(t, FALSE)

BodySent(t) == BodyReturns(t, TRUE)

BodyFailed(t) == BodyReturns(t, FALSE)

AttachmentsSent(t) == AttachmentsReturn(t, "sent")

AttachmentsRefused(t) == AttachmentsReturn(t, "refused")

AttachmentsFailed(t) == AttachmentsReturn(t, "logged")

PlaceholderSent(t) == PlaceholderReturns(t, TRUE)

PlaceholderFailed(t) == PlaceholderReturns(t, FALSE)

\* A task whose cancellation was requested gets CancelledError at its await.
ConsumeCancelled(t) ==
    /\ Live(tasks[t]) /\ tasks[t].cancel
    /\ tasks' = Collect([tasks EXCEPT ![t] = EndedTask("cancelled")], consume_task)
    /\ UNCHANGED << watched_users, message_queue, consumption_queue, consume_task,
                    message_history, channel, webhook, start, list, unloaded,
                    unload_exc, msgs, relayed, sent, send_log, completed, revoked,
                    snap_at >>

\* The task is suspended inside relay_message.
Relaying(tk) == Live(tk) /\ tk.pc \in {"header", "body", "attachments", "placeholder"}

\* ---------------------------------------------------------- _remove_user
\* A task suspended inside its loops over user u keeps the channel dict of u
\* (its local user_channel_queues) when u is popped from consumption_queue.
Detach(ts, cq, u) ==
    [ i \in Slots |->
        IF /\ Relaying(ts[i])
           /\ ts[i].user = u /\ ~ts[i].detached /\ u \in Keys(cq)
        THEN [ts[i] EXCEPT !.detached = TRUE, !.uq = DictGet(cq, u)]
        ELSE ts[i] ]

_remove_user(u) ==
    /\ watched_users' = [x \in DOMAIN watched_users \ {u} |-> watched_users[x]]
    /\ message_queue' = DictPop(message_queue, u)
    /\ consumption_queue' = DictPop(consumption_queue, u)
    /\ tasks' = Detach(tasks, consumption_queue, u)
    /\ revoked' = revoked \cup UserIds(message_queue, u) \cup UserIds(consumption_queue, u)
    /\ UNCHANGED << consume_task, message_history, channel, webhook, start, list,
                    unloaded, unload_exc, msgs, relayed, sent, send_log, completed, snap_at >>

RemoveUser == \E u \in Users : _remove_user(u)

\* ------------------------------------------------------ fetch_user_cache
\* What the API can answer: entries for any set of users.
FetchData == UNION { [S -> Entries] : S \in SUBSET Users }

Answers == { Answer(TRUE, d) : d \in FetchData } \cup { NoAnswer }

\* A variant of the refresh that merges the answer into the old cache.
fetch_user_cache_merge(old, ans) ==
    IF ans.ok THEN [ret |-> TRUE, cache |-> ans.data @@ old]
    ELSE [ret |-> FALSE, cache |-> old]

\* A variant of the refresh that stamps the entries it stores anew.
fetch_user_cache_restamp(old, ans) ==
    IF ans.ok
    THEN [ret |-> TRUE,
          cache |-> [u \in DOMAIN ans.data |-> [ans.data[u] EXCEPT !.inserted_at = @ + 1]]]
    ELSE [ret |-> FALSE, cache |-> old]

\* fetch_user_cache once api_client.get has answered (ans.ok) or raised
\* ClientResponseError: the return value and the cache it leaves.
fetch_user_cache(old, ans) ==
    IF ans.ok THEN [ret |-> TRUE, cache |-> ans.data]
    ELSE [ret |-> FALSE, cache |-> old]

\* --------------------------------------------------------------- cog_unload
\* How the call ends: None has no done(); result() of a task that is not done
\* raises InvalidStateError, which `except asyncio.CancelledError` lets through.
cog_unload_exc ==
    IF consume_task = None THEN "AttributeError"
    ELSE IF Done(tasks[consume_task]) THEN "returned"
    ELSE "InvalidStateError"

\* cancel() only requests the cancellation: the task is done once it has run again.
cog_unload ==
    /\ unloaded' = TRUE
    /\ unload_exc' = cog_unload_exc
    /\ IF consume_task # None /\ ~Done(tasks[consume_task])
       THEN tasks' = [tasks EXCEPT ![consume_task].cancel = TRUE]
       ELSE UNCHANGED tasks

CogUnload ==
    /\ ~unloaded
    /\ cog_unload
    /\ UNCHANGED << watched_users, message_queue, consumption_queue, consume_task,
                    message_history, channel, webhook, start, list, msgs, relayed,
                    sent, send_log, completed, revoked, snap_at >>

\* -------------------------------------------------------- start_watchchannel
\* One pass of the retry loop (lines 105-113): attempt number k.
Attempt(k) ==
    \E found \in BOOLEAN :
        /\ channel' = IF found THEN destination ELSE None
        /\ start' = IF ~found /\ k < retries
                    THEN StartTask("sleep", k)
                    ELSE StartTask("get_webhook_info", 0)
        /\ UNCHANGED << watched_users, message_queue, consumption_queue, tasks,
                        consume_task, message_history, webhook, list, unloaded, unload_exc, msgs, relayed, sent, send_log, completed, revoked, snap_at >>

StartReady ==
    /\ start.pc = "wait_until_ready"
    /\ Attempt(1)

StartRetry ==
    /\ start.pc = "sleep"
    /\ Attempt(start.attempt + 1)

\* get_webhook_info answers or raises; lines 121-146 up to the next await.
StartWebhook ==
    /\ start.pc = "get_webhook_info"
    /\ \E ok \in BOOLEAN, ans \in Answers :
        /\ webhook' = IF ok THEN webhook_id ELSE webhook
        /\ start' = IF channel = None \/ webhook' = None
                    THEN StartTask("send_log_message", 0)
                    ELSE StartTaskFetching(ans)
    /\ UNCHANGED << watched_users, message_queue, consumption_queue, tasks,
                    consume_task, message_history, channel, list, unloaded, unload_exc, msgs, relayed, sent, send_log, completed, revoked, snap_at >>

\* The failure was reported: bot.remove_cog, which unloads a loaded cog.
StartAbort ==
    /\ start.pc = "send_log_message"
    /\ start' = StartTask("removed", 0)
    /\ IF unloaded THEN UNCHANGED <<unloaded, unload_exc, tasks>> ELSE cog_unload
    /\ UNCHANGED << watched_users, message_queue, consumption_queue, consume_task,
                    message_history, channel, webhook, list, msgs, relayed,
                    sent, send_log, completed, revoked, snap_at >>

\* The initial fetch_user_cache returns.
StartFetched ==
    /\ start.pc = "fetch_user_cache"
    /\ LET r == fetch_user_cache(watched_users, start.answer)
       IN  /\ watched_users' = r.cache
           /\ start' = IF r.ret THEN StartTask("done", 0)
                       ELSE StartTask("warn", 0)
    /\ UNCHANGED << message_queue, consumption_queue, tasks, consume_task,
                    message_history, channel, webhook, list, unloaded, unload_exc, msgs, relayed, sent, send_log, completed, revoked, snap_at >>

\* The warning was reported.
StartWarned ==
    /\ start.pc = "warn"
    /\ start' = StartTask("done", 0)
    /\ UNCHANGED << watched_users, message_queue, consumption_queue, tasks,
                    consume_task, message_history, channel, webhook, list,
                    unloaded, unload_exc, msgs, relayed, sent, send_log, completed, revoked, snap_at >>

\* -------------------------------------------------------- list_watched_users
ListCall ==
    /\ list.pc = "idle"
    /\ \E update_cache \in BOOLEAN, ans \in Answers :
        list' = IF update_cache THEN ListTask("fetch_user_cache", ans)
                ELSE ListTask("paginate_cached", NoAnswer)
    /\ UNCHANGED << watched_users, message_queue, consumption_queue, tasks,
                    consume_task, message_history, channel, webhook, start,
                    unloaded, unload_exc, msgs, relayed, sent, send_log, completed, revoked, snap_at >>

ListFetched ==
    /\ list.pc = "fetch_user_cache"
    /\ LET r == fetch_user_cache(watched_users, list.answer)
       IN  /\ watched_users' = r.cache
           /\ list' = IF r.ret THEN ListTask("paginate_updated", NoAnswer)
                      ELSE ListTask("paginate_cached", NoAnswer)
    /\ UNCHANGED << message_queue, consumption_queue, tasks, consume_task,
                    message_history, channel, webhook, start, unloaded, unload_exc, msgs, relayed, sent, send_log, completed, revoked, snap_at >>

ListPaginated ==
    /\ list.pc \in {"paginate_updated", "paginate_cached"}
    /\ list' = ListTask("idle", NoAnswer)
    /\ UNCHANGED << watched_users, message_queue, consumption_queue, tasks,
                    consume_task, message_history, channel, webhook, start,
                    unloaded, unload_exc, msgs, relayed, sent, send_log, completed, revoked, snap_at >>

\* ------------------------------------------------------------ specification
Next ==
    \/ OnMessage
    \/ \E t \in Slots : ConsumeStart(t)
    \/ \E t \in Slots : ConsumeWake(t)
    \/ \E t \in Slots : HeaderSent(t)
    \/ \E t \in Slots : BodySent(t)
    \/ \E t \in Slots : ConsumeCancelled(t)
    \/ RemoveUser
    \/ CogUnload
    \/ StartReady
    \/ StartRetry
    \/ StartWebhook
    \/ StartAbort
    \/ StartFetched
    \/ StartWarned
    \/ ListCall
    \/ ListFetched
    \/ ListPaginated

Spec == Init /\ [][Next]_vars


\* The cog once start_watchchannel has finished successfully: channel and
\* webhook resolved, the cache as the first fetch_user_cache left it. Commands,
\* messages, the engine and the unload go on from there.
InitRun ==
    /\ watched_users \in FetchData
    /\ message_queue = << >>
    /\ consumption_queue = << >>
    /\ tasks = [i \in Slots |-> NoTask]
    /\ consume_task = None
    /\ message_history = MessageHistory(None, None, 0)
    /\ channel = destination
    /\ webhook = webhook_id
    /\ start = StartTask("done", 0)
    /\ list = ListTask("idle", NoAnswer)
    /\ unloaded = FALSE
    /\ unload_exc = "none"
    /\ msgs = << >>
    /\ relayed = << >>
    /\ sent = << >>
    /\ send_log = {}
    /\ completed = {}
    /\ revoked = {}
    /\ snap_at = -1

NextRun ==
    \/ OnMessageRun
    \/ \E t \in Slots : ConsumeStart(t)
    \/ \E t \in Slots : ConsumeWake(t)
    \/ \E t \in Slots : HeaderSent(t)
    \/ \E t \in Slots : BodySent(t)
    \/ \E t \in Slots : ConsumeCancelled(t)
    \/ RemoveUser
    \/ CogUnload
    \/ ListCall
    \/ ListFetched
    \/ ListPaginated

SpecRun == InitRun /\ [][NextRun]_vars

\* Intake and engine alone: every user watched, no command, no unload.
InitEngine ==
    /\ watched_users = [u \in Users |-> CHOOSE e \in Entries : TRUE]
    /\ message_queue = << >>
    /\ consumption_queue = << >>
    /\ tasks = [i \in Slots |-> NoTask]
    /\ consume_task = None
    /\ message_history = MessageHistory(None, None, 0)
    /\ channel = destination
    /\ webhook = webhook_id
    /\ start = StartTask("done", 0)
    /\ list = ListTask("idle", NoAnswer)
    /\ unloaded = FALSE
    /\ unload_exc = "none"
    /\ msgs = << >>
    /\ relayed = << >>
    /\ sent = << >>
    /\ send_log = {}
    /\ completed = {}
    /\ revoked = {}
    /\ snap_at = -1

EngineStep ==
    \/ \E t \in Slots : ConsumeStart(t)
    \/ \E t \in Slots : ConsumeWake(t)
    \/ \E t \in Slots : HeaderSent(t)
    \/ \E t \in Slots : BodySent(t)

NextEngine ==
    \/ OnMessageEngine
    \/ EngineStep

\* Intake, engine and unload: every user watched, no command.
NextCancel ==
    \/ OnMessageCancel
    \/ EngineStep
    \/ \E t \in Slots : ConsumeCancelled(t)
    \/ CogUnload

SpecCancel == InitEngine /\ [][NextCancel]_vars

SpecEngine == InitEngine /\ [][NextEngine]_vars

NextLive ==
    \/ OnMessageLive
    \/ EngineStep

\* The event loop runs a task that is ready, the sleep ends and a send returns.
SpecLive == InitEngine /\ [][NextLive]_vars /\ WF_vars(EngineStep)

\* Intake and engine with every outcome of the sends.
NextRelay ==
    \/ OnMessageRelay
    \/ EngineStep
    \/ \E t \in Slots : HeaderFailed(t)
    \/ \E t \in Slots : BodyFailed(t)
    \/ \E t \in Slots : AttachmentsSent(t)
    \/ \E t \in Slots : AttachmentsRefused(t)
    \/ \E t \in Slots : AttachmentsFailed(t)
    \/ \E t \in Slots : PlaceholderSent(t)
    \/ \E t \in Slots : PlaceholderFailed(t)

SpecRelay == InitEngine /\ [][NextRelay]_vars

\* ============================================================== properties
Range(q) == { q[i] : i \in DOMAIN q }

Count(q, x) == Cardinality({ i \in DOMAIN q : q[i] = x })

Max(S) == CHOOSE x \in S : \A y \in S : y <= x

Min(S) == CHOOSE x \in S : \A y \in S : x <= y

\* The (author, channel) of message m.
Pair(m) == <<msgs[m].author, msgs[m].channel>>

Pairs == [m \in DOMAIN msgs |-> Pair(m)]

LiveTasks == { t \in Slots : Live(tasks[t]) }

\* Nothing is left to do: no consume task, both queues empty.
AllDone ==
    /\ LiveTasks = {}
    /\ message_queue = << >>
    /\ consumption_queue = << >>

IsBody(i) == sent[i][1] = "body"

IsHeader(i) == sent[i][1] = "header"

\* The ids of the bodies handed to the transport, in order.
BodyIds ==
    LET b == SelectSeq(sent, LAMBDA e : e[1] = "body")
    IN  [i \in DOMAIN b |-> b[i][2]]

\* The body at position i of `sent` came right after its own header.
Headed(i) == i > 1 /\ sent[i - 1] = <<"header", sent[i][2]>>

\* The position of the body sent before position i, or 0.
PrevBody(i) ==
    LET P == { k \in 1..(i - 1) : IsBody(k) }
    IN  IF P = {} THEN 0 ELSE Max(P)

\* The bodies from the last headed body up to and including position i.
RunLength(i) ==
    LET H == { k \in 1..i : IsBody(k) /\ Headed(k) }
        from == IF H = {} THEN 1 ELSE Max(H)
    IN  Cardinality({ k \in from..i : IsBody(k) })

\* ---- C1
C1_OnceAndInOrder ==
    \A i, j \in DOMAIN relayed :
        i < j => /\ relayed[i] # relayed[j]
                 /\ Pair(relayed[i]) = Pair(relayed[j]) => relayed[i] < relayed[j]

\* C1: with intake and engine alone (every author watched, no cancellation),
\* every accepted message is eventually passed to relay_message, never twice,
\* and the messages of one (author, channel) are relayed in arrival order.
\* (msgs only grows, so a message accepted now is among the accepted messages
\* of every later state: it is relayed by the next state in which all are.)
C1_EveryMessageRelayedOnceInOrder ==
    /\ []C1_OnceAndInOrder
    /\ []<>(\A m \in DOMAIN msgs : msgs[m].queued => Count(relayed, m) = 1)

\* Three messages, one of them queued while the engine was draining, all relayed.
C1_Witness ==
    /\ Len(msgs) >= 3
    /\ snap_at \in 1..(Len(msgs) - 1)
    /\ completed = DOMAIN msgs
    /\ \E i, j \in DOMAIN relayed : i < j /\ Pair(relayed[i]) = Pair(relayed[j])

\* ---- C5
\* The policy asks for a header before the body at position i of `sent`.
HeaderRequired(i) ==
    LET p == PrevBody(i)
    IN  \/ p = 0
        \/ Pair(sent[i][2]) # Pair(sent[p][2])
        \/ RunLength(p) >= header_message_limit

\* C5: in every sequence of relay_message calls a header is sent right before
\* a message exactly when it is the first message, its author or channel
\* differs from the message relayed before it, or header_message_limit
\* messages were relayed since the last header; a header is only ever sent
\* right before the body of its own message.
C5_HeaderPolicy ==
    /\ \A i \in DOMAIN sent : IsBody(i) => (Headed(i) <=> HeaderRequired(i))
    /\ \A i \in DOMAIN sent :
        IsHeader(i) => (i = Len(sent) \/ sent[i + 1] = <<"body", sent[i][2]>>)

\* Four messages of one (author, channel): headers before the first and the fourth only.
C5_Witness ==
    /\ Len(msgs) = 4
    /\ \A m \in DOMAIN msgs : Pair(m) = Pair(1)
    /\ sent = << <<"header", 1>>, <<"body", 1>>, <<"body", 2>>, <<"body", 3>>,
                 <<"header", 4>>, <<"body", 4>> >>

\* ---- C6
FirstOfAuthor(m) == Min({ k \in DOMAIN msgs : msgs[k].author = msgs[m].author })

FirstOfPair(m) == Min({ k \in DOMAIN msgs : Pair(k) = Pair(m) })

\* m comes before n when a snapshot holding both is drained: by user, then by
\* channel, each in first-insertion order, then by arrival.
GroupedBefore(m, n) ==
    \/ FirstOfAuthor(m) < FirstOfAuthor(n)
    \/ /\ FirstOfAuthor(m) = FirstOfAuthor(n)
       /\ \/ FirstOfPair(m) < FirstOfPair(n)
          \/ FirstOfPair(m) = FirstOfPair(n) /\ m < n

\* C6: when every message was queued before the engine took its snapshot, the
\* transport gets each message once, grouped by user and then by channel
\* (first-insertion order, FIFO inside a group), with a header at every change
\* of (author, channel); M1 (5, 10), M2 (5, 10), M3 (5, 11) give exactly
\* header, M1, M2, header, M3.
C6_GroupedRelay ==
    /\ (AllDone /\ snap_at = Len(msgs)) =>
        /\ Len(BodyIds) = Len(msgs)
        /\ \A i, j \in DOMAIN BodyIds : i < j => GroupedBefore(BodyIds[i], BodyIds[j])
        /\ \A i \in DOMAIN sent :
            (IsBody(i) /\ (PrevBody(i) = 0 \/ Pair(sent[i][2]) # Pair(sent[PrevBody(i)][2])))
                => Headed(i)
    /\ (AllDone /\ Pairs = << <<5, 10>>, <<5, 10>>, <<5, 11>> >>) =>
        sent = << <<"header", 1>>, <<"body", 1>>, <<"body", 2>>,
                  <<"header", 3>>, <<"body", 3>> >>

\* M1, M2, M3 of the scenario were in one snapshot and have been relayed.
C6_Witness ==
    /\ AllDone
    /\ snap_at = 3
    /\ Pairs = << <<5, 10>>, <<5, 10>>, <<5, 11>> >>
    /\ sent = << <<"header", 1>>, <<"body", 1>>, <<"body", 2>>,
                 <<"header", 3>>, <<"body", 3>> >>

\* ---- C2
\* C2: at most one consume_messages task is pending or draining in any
\* reachable state, and it is the task _consume_task refers to.
C2_SingleFlight ==
    /\ Cardinality(LiveTasks) <= 1
    /\ \A t \in LiveTasks : consume_task = t

\* The engine has re-spawned itself at the end of a drain.
C2_Witness ==
    /\ consume_task # None
    /\ Live(tasks[consume_task])
    /\ ~tasks[consume_task].delay
    /\ Len(relayed) > 0

\* ---- C3
\* The consume task was cancelled with the body of a message handed to the
\* transport and messages of the snapshot still to drain.
CancelledMidSnapshot ==
    /\ consume_task # None
    /\ tasks[consume_task].status = "cancelled"
    /\ \E i \in DOMAIN sent : IsBody(i)
    /\ QueueIds(consumption_queue) # {}

\* C3: when the consume task was cancelled after a message was relayed and
\* before the next message of the snapshot was taken, the next on_message call
\* for a watched user starts a new consume task and queues its message, and no
\* message is relayed twice.
C3_RestartAfterCancel ==
    [][ /\ (CancelledMidSnapshot /\ Len(msgs') = Len(msgs) + 1) =>
            /\ consume_task' # None
            /\ Live(tasks'[consume_task'])
            /\ msgs'[Len(msgs')].queued
        /\ \A i, j \in DOMAIN relayed' : i < j => relayed'[i] # relayed'[j] ]_vars

\* ---- C4
\* The messages a live consume task has taken and is relaying.
InFlight ==
    { tasks[t].msg : t \in { u \in Slots : Relaying(tasks[u]) } }

\* C4: a message that was queued and whose relay has not completed is in
\* message_queue or consumption_queue, or is being relayed by a live consume
\* task; a drain that stops partway drops nothing.
C4_NothingCapturedIsDropped ==
    \A m \in DOMAIN msgs :
        (msgs[m].queued /\ m \notin completed /\ m \notin revoked) =>
            m \in QueueIds(message_queue) \cup QueueIds(consumption_queue) \cup InFlight

\* ---- C7
\* C7: no message whose author is not a watched user is in message_queue or
\* consumption_queue, and none is passed to relay_message.
C7_OnlyWatchedAuthors ==
    /\ [](\A m \in QueueIds(message_queue) \cup QueueIds(consumption_queue) :
            msgs[m].author \in DOMAIN watched_users)
    /\ [][ \A m \in Range(relayed') \ Range(relayed) :
            msgs[m].author \in DOMAIN watched_users ]_vars

\* ---- C8
\* C8: a message of a user that was queued when _remove_user(user) was called
\* is not relayed afterwards.
C8_RemovedUserNotRelayed ==
    [][ \A m \in Range(relayed') \ Range(relayed) : m \notin revoked ]_vars

\* ---- C9
\* C9: a fetch_user_cache whose fetch raised returns False and leaves
\* watched_users as it was; one whose fetch answered returns True and leaves
\* exactly the fetched entries, in the same step.
C9_RefreshAllOrNothing ==
    [][ /\ (start.pc = "fetch_user_cache" /\ start'.pc # "fetch_user_cache") =>
            IF start.answer.ok
            THEN watched_users' = start.answer.data /\ start'.pc = "done"
            ELSE watched_users' = watched_users /\ start'.pc = "warn"
        /\ (list.pc = "fetch_user_cache" /\ list'.pc # "fetch_user_cache") =>
            IF list.answer.ok
            THEN watched_users' = list.answer.data /\ list'.pc = "paginate_updated"
            ELSE watched_users' = watched_users /\ list'.pc = "paginate_cached" ]_vars

\* The initial refresh failed and left a cache that an earlier refresh filled.
C9_Witness ==
    /\ start.pc = "warn"
    /\ DOMAIN watched_users # {}

\* ---- C10
\* C10: while channel or webhook is unresolved nothing is queued and nothing
\* was handed to the transport; the initial refresh runs only with both
\* resolved; an aborted initialization has unloaded the cog.
C10_NeverHalfInitialized ==
    /\ (channel = None \/ webhook = None) =>
        /\ QueueIds(message_queue) \cup QueueIds(consumption_queue) = {}
        /\ sent = << >>
    /\ start.pc = "fetch_user_cache" => (channel # None /\ webhook # None)
    /\ start.pc = "removed" => unloaded

\* ---- C11
\* C11: a cog_unload call completes without raising, whatever the consume
\* task is: never started, sleeping or draining, finished, failed.
C11_UnloadNeverRaises ==
    unloaded => unload_exc = "returned"

\* ---- C12
\* A fetch_user_cache call returns in this step, for an answer that holds
\* exactly the users and entries of the cache.
SameRefreshReturns ==
    \/ /\ start.pc = "fetch_user_cache" /\ start'.pc # "fetch_user_cache"
       /\ start.answer.ok /\ start.answer.data = watched_users
    \/ /\ list.pc = "fetch_user_cache" /\ list'.pc # "fetch_user_cache"
       /\ list.answer.ok /\ list.answer.data = watched_users

\* C12: a successful refresh whose answer is what the cache already holds
\* leaves watched_users equal to its value before (same keys, same entries)
\* and leaves message_queue and consumption_queue unchanged; so does every
\* such refresh after it.
C12_RefreshIdempotent ==
    [][ SameRefreshReturns =>
            /\ watched_users' = watched_users
            /\ message_queue' = message_queue
            /\ consumption_queue' = consumption_queue
            /\ start'.pc \in {start.pc, "done"}
            /\ list'.pc \in {list.pc, "paginate_updated"} ]_vars

\* After the first refresh filled the cache, a refresh with the same answer
\* is about to return while a snapshot is drained and a message waits in
\* message_queue.
C12_Witness ==
    /\ start.pc = "done"
    /\ list.pc = "fetch_user_cache"
    /\ list.answer.ok
    /\ list.answer.data = watched_users
    /\ DOMAIN watched_users # {}
    /\ QueueIds(message_queue) # {}
    /\ Len(consumption_queue) > 0

\* ---- C13
\* An on_message call for a watched user returns in this step.
IntakeReturns ==
    /\ Len(msgs') = Len(msgs) + 1
    /\ msgs'[Len(msgs')].queued

\* The deque message_queue[a][c], empty when there is none.
BufferOf(q, a, c) ==
    IF a \in Keys(q) /\ c \in Keys(DictGet(q, a)) THEN DictGet(DictGet(q, a), c) ELSE << >>

\* C13: when an on_message call for a watched user has returned, its message
\* is the last one of message_queue[author][channel] and the consume task is
\* pending or running: the task that was running, or a new one when there was
\* none or the last one had finished or failed; a failure was logged.
C13_IntakeQueuesAndSpawns ==
    [][ IntakeReturns =>
          LET id == Len(msgs')
              dq == BufferOf(message_queue', msgs'[id].author, msgs'[id].channel)
              old == IF consume_task = None THEN NoTask ELSE tasks[consume_task]
          IN  /\ Len(dq) > 0
              /\ dq[Len(dq)] = id
              /\ consume_task' # None
              /\ Live(tasks'[consume_task'])
              /\ Live(old) => (consume_task' = consume_task /\ tasks' = tasks)
              /\ ~Live(old) => tasks'[consume_task'] = NewTask(TRUE)
              /\ old.status = "failed" => msgs'[id].logged ]_vars

\* The last consume task had failed: the call logged it, started a new task
\* and queued its message.
C13_Witness ==
    /\ Len(msgs) > 0
    /\ msgs[Len(msgs)].logged
    /\ consume_task # None
    /\ tasks[consume_task] = NewTask(TRUE)
    /\ Len(msgs) \in QueueIds(message_queue)

\* ---- C14
\* The last consume task returned normally and none is pending or running.
EngineStopped ==
    /\ consume_task # None
    /\ tasks[consume_task].status = "finished"
    /\ LiveTasks = {}

\* C14: a drain that ends clears the snapshot and, when message_queue is not
\* empty, starts a new drain without the delay; so whenever the last consume
\* task has returned normally and none is active, consumption_queue and
\* message_queue are empty.
C14_StopsOnlyWhenDrained ==
    /\ [](EngineStopped => (message_queue = << >> /\ consumption_queue = << >>))
    /\ [][ \A t \in Slots :
             (Live(tasks[t]) /\ tasks'[t].status = "finished") =>
                /\ consumption_queue' = << >>
                /\ message_queue' = << >> ]_vars
    /\ [][ \A t \in Slots :
             (tasks'[t] = NewTask(FALSE) /\ tasks[t] # NewTask(FALSE)) =>
                /\ consumption_queue' = << >>
                /\ message_queue' # << >>
                /\ consume_task' = t ]_vars

\* A drain has ended with a message waiting: the snapshot is cleared and the
\* engine has started its next drain, without the delay.
C14_Witness ==
    /\ consume_task # None
    /\ tasks[consume_task] = NewTask(FALSE)
    /\ consumption_queue = << >>
    /\ QueueIds(message_queue) # {}
    /\ completed # {}

\* ---- C15
\* C15: on_message leaves consumption_queue unchanged; a step of the engine
\* takes messages out of consumption_queue only and changes message_queue only
\* in the swap, which empties it into an empty consumption_queue; no message
\* is in both queues, so a message that arrives during a drain is not in the
\* snapshot being drained.
C15_IntakeAndDrainApart ==
    /\ [](QueueIds(message_queue) \cap QueueIds(consumption_queue) = {})
    /\ [][ Len(msgs') > Len(msgs) =>
             /\ consumption_queue' = consumption_queue
             /\ QueueIds(message_queue') = QueueIds(message_queue) \cup {Len(msgs')}
             /\ UNCHANGED <<message_history, watched_users, relayed, sent>> ]_vars
    /\ [][ msgs' = msgs =>
             \/ /\ message_queue' = message_queue
                /\ QueueIds(consumption_queue') \subseteq QueueIds(consumption_queue)
             \/ /\ Len(consumption_queue) = 0
                /\ message_queue' = << >>
                /\ QueueIds(consumption_queue') \subseteq QueueIds(message_queue) ]_vars

\* A snapshot is being drained and a message that came after it was taken
\* waits in message_queue.
C15_Witness ==
    /\ snap_at >= 2
    /\ QueueIds(consumption_queue) # {}
    /\ \E m \in QueueIds(message_queue) : m > snap_at
    /\ \E t \in Slots : Relaying(tasks[t])

\* ---- C16
\* C16: a send that fails during a relay (header, body, attachments,
\* placeholder) never ends the consume task: no task fails, no message is
\* passed to relay_message or handed to the transport a second time, and once
\* the engine has stopped every message was relayed to the end.
C16_SendFailureDoesNotStopEngine ==
    /\ \A t \in Slots : tasks[t].status # "failed"
    /\ \A m \in DOMAIN msgs : Count(relayed, m) <= 1 /\ Count(sent, <<"body", m>>) <= 1
    /\ \A e \in send_log : Count(relayed, e[2]) = 1
    /\ AllDone => \A m \in DOMAIN msgs : m \in completed /\ Count(sent, <<"body", m>>) = 1

\* The header and the body send of the first message failed, so did the
\* placeholder send of the second, and both relays went to their end.
C16_Witness ==
    /\ AllDone
    /\ {<<"header", 1>>, <<"body", 1>>, <<"placeholder", 2>>} \subseteq send_log
    /\ completed = {1, 2}
    /\ relayed = <<1, 2>>

\* ---- C17
\* A header was handed to the transport in this step.
HeaderEmitted ==
    /\ Len(sent') > Len(sent)
    /\ sent'[Len(sent')][1] = "header"

\* C17: message_count is 0 after a header is emitted; when the relay of a
\* message ends, message_count has grown by one if the body send succeeded and
\* has not grown if the body send failed (unless the next message's header
\* reset it in the same step).
C17_CountFollowsSentBodies ==
    [][ /\ HeaderEmitted => message_history'.message_count = 0
        /\ \A m \in completed' \ completed :
             ~HeaderEmitted =>
                message_history'.message_count =
                    message_history.message_count
                        + (IF <<"body", m>> \in send_log' THEN 0 ELSE 1) ]_vars

\* ---- C18
\* C18: a user becomes a key of watched_users only in a step in which a
\* fetch_user_cache call returns with an entry for that user; a lookup made
\* for a header adds none.
C18_OnlyRefreshAddsKeys ==
    [][ \A u \in DOMAIN watched_users' \ DOMAIN watched_users :
          \/ /\ start.pc = "fetch_user_cache" /\ start'.pc # "fetch_user_cache"
             /\ start.answer.ok /\ u \in DOMAIN start.answer.data
          \/ /\ list.pc = "fetch_user_cache" /\ list'.pc # "fetch_user_cache"
             /\ list.answer.ok /\ u \in DOMAIN list.answer.data ]_vars

\* ---- C19
\* C19: no consume task fails in send_header on a missing cache entry, and
\* every body handed to the transport comes after a header sent for its
\* (author, channel).
C19_HeaderEntryPresent ==
    /\ \A t \in Slots : tasks[t].exc # "KeyError"
    /\ \A i \in DOMAIN sent :
        IsBody(i) => \E j \in 1..(i - 1) :
                        IsHeader(j) /\ Pair(sent[j][2]) = Pair(sent[i][2])

\* ---- C20
\* C20: no consume task fails in its iteration over consumption_queue,
\* whichever user _remove_user takes out while the task is suspended.
C20_RemovalDoesNotFailDrain ==
    \A t \in Slots : tasks[t].exc # "RuntimeError"

====
